---- MODULE Spec2Model ----
(***************************************************************************)
(* Model of the Butterfly API client (class Client, method get) and of the *)
(* error classes it raises.                                                *)
(*                                                                         *)
(* Conventions                                                             *)
(*   - a JavaScript string that the code inspects or concatenates is a     *)
(*     sequence of one-character strings (<<"/", "v", "1">> is '/v1'); a   *)
(*     literal that is only carried around is a TLA+ string;               *)
(*   - an optional value is a sequence of length at most one: <<>> is      *)
(*     undefined, <<x>> is x;                                              *)
(*   - get is an async function: it runs synchronously up to its first     *)
(*     await (the transport call), resumes when the transport settles and  *)
(*     runs up to its second await (res.json()), and resumes a last time   *)
(*     when the body read settles.  Each of these runs is one action.      *)
(***************************************************************************)
EXTENDS Integers, Sequences, FiniteSets, TLC

VARIABLES
    client,       \* the Client instance: domain, publicKey, apiVersion, fetcher
    pc,           \* position of the current get call
    opts,         \* the FetchOptions of the current get call
    request,      \* <<>> or <<r>>: the arguments of the transport call
    fetchCalls,   \* number of transport invocations made by the current call
    settled,      \* <<>> or <<s>>: how the transport call settled
    intercepted,  \* responses handed to the intercept callback, in order
    trace,        \* externally visible steps of the current call, in order
    outcome,      \* <<>> or <<o>>: how the promise returned by get settled
    utilCall,     \* the arguments of the utility function under study
    utilResult,   \* <<>> or <<r>>: what the utility function returned or threw
    utilStack,    \* the pending calls of getCategoryChildrenIds, innermost last
    childrenIds,  \* the childrenIds array of getCategoryChildrenIds
    calls         \* the get calls in flight together on the client, by call

\* the state of the client and of its current get call
clientVars == <<client, pc, opts, request, fetchCalls, settled, intercepted, trace, outcome>>

\* the state of a call of a utility function (getMediaUrl, getRelated,
\* getCategoryChildrenIds), which no client shares
utilVars == <<utilCall, utilResult, utilStack, childrenIds>>

vars == <<clientVars, utilVars, calls>>

----------------------------------------------------------------------------
(* Bounds *)

\* longest pool of resources given to getRelated
MaxPool == 2

\* longest category list given to getCategoryChildrenIds
MaxCats == 3

\* number of get calls in flight together on one client
MaxCalls == 2

\* longest errors array of a response body
MaxErrors == 2

----------------------------------------------------------------------------
(* Strings *)

None == <<>>
Some(x) == <<x>>

StartsWith(s, p) == Len(s) >= Len(p) /\ SubSeq(s, 1, Len(p)) = p

EndsWith(s, p) == Len(s) >= Len(p) /\ SubSeq(s, Len(s) - Len(p) + 1, Len(s)) = p

\* s.includes(p)
Includes(s, p) == \E i \in 1..(Len(s) - Len(p) + 1) : SubSeq(s, i, i + Len(p) - 1) = p

\* a JavaScript string is truthy iff it is not empty
TruthyStr(o) == o # None /\ o[1] # <<>>

Digit(d) == CASE d = 0 -> "0" [] d = 1 -> "1" [] d = 2 -> "2" [] d = 3 -> "3"
              [] d = 4 -> "4" [] d = 5 -> "5" [] d = 6 -> "6" [] d = 7 -> "7"
              [] d = 8 -> "8" [] OTHER -> "9"

RECURSIVE NumToStr(_)
\* String(n) for a natural number n
NumToStr(n) == IF n < 10 THEN <<Digit(n)>> ELSE NumToStr(n \div 10) \o <<Digit(n % 10)>>

----------------------------------------------------------------------------
(* Error classes *)

\* fields an error value may carry; a field the class does not have is <<>>
ErrorValue(class, name, message) ==
    [class |-> class, name |-> name, message |-> message, isError |-> TRUE,
     status |-> None, title |-> None, details |-> None, location |-> None,
     originalError |-> None]

\* new Error(message)
PlainError(message) == ErrorValue("Error", "Error", message)

RedirectError(status, location) ==
    [ErrorValue("RedirectError", "RedirectError",
                <<"[BTF-API] Redirect (">> \o NumToStr(status) \o <<") to ", location>>)
       EXCEPT !.status = Some(status), !.location = Some(location)]

\* the details parameter defaults to ''
ApiError(status, title, details) ==
    [ErrorValue("ApiError", "ApiError",
                <<"[BTF-API] Error ">> \o NumToStr(status) \o <<": ", title>>)
       EXCEPT !.status = Some(status), !.title = Some(title),
              !.details = IF details = None THEN Some("") ELSE details]

NetworkError(originalError) ==
    [ErrorValue("NetworkError", "NetworkError",
                <<"[BTF-API] Network error: ">> \o originalError.message)
       EXCEPT !.originalError = Some(originalError)]

----------------------------------------------------------------------------
(* Values the transport can produce *)

\* what a fetch implementation rejects with on a connectivity failure
TypeErrorValue == ErrorValue("TypeError", "TypeError", <<"fetch failed">>)

\* any other Error a (custom) transport rejects with
OtherErrorValue == ErrorValue("Error", "Error", <<"boom">>)

\* a thrown value that is not an Error (throw 'string')
NonErrorValue == [ErrorValue("String", "", <<"reason">>) EXCEPT !.isError = FALSE]

\* signal.reason of controller.abort(): a DOMException named AbortError
AbortErrorValue == ErrorValue("DOMException", "AbortError", <<"This operation was aborted">>)

\* signal.reason of AbortSignal.timeout(): a DOMException named TimeoutError
TimeoutErrorValue == ErrorValue("DOMException", "TimeoutError", <<"The operation timed out">>)

\* res.json() on a body that is not JSON
SyntaxErrorValue == ErrorValue("SyntaxError", "SyntaxError", <<"Unexpected token">>)

ConnectivityFailures == {TypeErrorValue, OtherErrorValue, NonErrorValue}

\* controller.abort(), AbortSignal.timeout(), controller.abort(reason)
AbortReasons == {AbortErrorValue, TimeoutErrorValue, OtherErrorValue, NonErrorValue}

\* one entry of the errors array of a body (IApiError), or null
ErrorEntry(status, title, detail) ==
    [isNull |-> FALSE, status |-> status, title |-> title, detail |-> detail]

NullEntry == [isNull |-> TRUE, status |-> 0, title |-> "", detail |-> ""]

FirstEntries ==
    { ErrorEntry(299, "Odd", "d299"), ErrorEntry(300, "Multiple Choices", "/v1/a"),
      ErrorEntry(399, "Moved", "/v1/b"), ErrorEntry(400, "Bad Request", "d400"),
      NullEntry }

LaterEntries == { ErrorEntry(301, "Moved Permanently", "/v1/c"),
                  ErrorEntry(500, "Server Error", "d500") }

RECURSIVE SeqsUpTo(_, _)
\* the sequences over S of length at most n
SeqsUpTo(S, n) ==
    IF n = 0 THEN {<<>>}
    ELSE LET shorter == SeqsUpTo(S, n - 1)
         IN  shorter \cup {Append(q, x) : q \in shorter, x \in S}

ErrorArrays ==
    {<<>>} \cup {<<e>> \o tail : e \in FirstEntries, tail \in SeqsUpTo(LaterEntries, MaxErrors - 1)}

\* the result of parsing a body: what isApiErrorResponse and get look at
JsonValue(isObject, hasErrors, errorsIsArray, errors, payload) ==
    [isObject |-> isObject, hasErrors |-> hasErrors, errorsIsArray |-> errorsIsArray,
     errors |-> errors, payload |-> payload]

ParsedBodies ==
    { JsonValue(FALSE, FALSE, FALSE, <<>>, "null"),
      JsonValue(TRUE, FALSE, FALSE, <<>>, "{data, included, links}"),
      JsonValue(TRUE, TRUE, FALSE, <<>>, "{errors: 'oops'}") }
    \cup { JsonValue(TRUE, TRUE, TRUE, a, "{errors: [...]}") : a \in ErrorArrays }

\* a body is <<>> when it is not valid JSON, else <<the value it parses to>>
Bodies == {None} \cup {Some(b) : b \in ParsedBodies}

HttpStatuses == {200, 404, 410}

Responses == [status : HttpStatuses, body : Bodies]

\* Response.ok
Ok(res) == res.status >= 200 /\ res.status <= 299

----------------------------------------------------------------------------
(* Client construction *)

\* options.domain.replace(/\/$/, ''): removes one trailing slash
CleanTrailingSlash(domain) ==
    IF EndsWith(domain, <<"/">>) THEN SubSeq(domain, 1, Len(domain) - 1) ELSE domain

\* a ?? b
Coalesce(o, default) == IF o = None THEN default ELSE o[1]

Constructor(options) ==
    [domain     |-> CleanTrailingSlash(options.domain),
     publicKey  |-> options.publicKey,
     apiVersion |-> Coalesce(options.version, <<"v", "1">>),
     fetcher    |-> Coalesce(options.fetch, "globalThis.fetch")]

Domains == { <<"h">>, <<"h", "/">>, <<"h", "/", "/">> }

ClientOptions ==
    [domain    : Domains,
     publicKey : {None, Some(<<>>), Some(<<"k">>)},
     version   : {None, Some(<<"v", "2">>)},
     fetch     : {None, Some("clientFetch")}]

----------------------------------------------------------------------------
(* Inputs of get *)

\* a query descriptor, as the ordered list of its leaves: the bracketed key
\* qs prints for the leaf, and the leaf's value
Leaf(key, value) == [key |-> key, value |-> value]

Queries ==
    { <<>>,
      <<Leaf("page[size]", <<"1">>)>>,
      <<Leaf("filter[a]", <<"%", "2", "3">>), Leaf("filter[b]", <<"%", "2", "3">>)>> }

\* an id is a number or a string
NumId(n) == [isNum |-> TRUE, n |-> n, s |-> <<>>]

StrId(s) == [isNum |-> FALSE, n |-> 0, s |-> s]

Ids == { NumId(0), NumId(7), StrId(<<"a">>) }

PathStrings ==
    { <<"/", "v", "1", "/">>, <<"/", "v", "1", "/", "p">>, <<"/", "v", "1", "x">>,
      <<"/", "v", "2", "/", "p">>, <<"/", "v", "y">>, <<"v", "1", "/">> }

Endpoint == <<"p", "o", "s", "t", "s">>

FetchOptionsOf(path, endpoint, id, query, fetch, signal, intercept) ==
    [path |-> path, endpoint |-> endpoint, id |-> id, query |-> query,
     fetch |-> fetch, signal |-> signal, intercept |-> intercept]

\* the calls the model makes: every path with and without an endpoint, every
\* way to leave out path and endpoint, every id and query on an endpoint
Targets ==
    { <<Some(p), e, None, None>> : p \in PathStrings, e \in {None, Some(Endpoint)} }
    \cup { <<p, e, None, None>> : p \in {None, Some(<<>>)}, e \in {None, Some(<<>>)} }
    \cup { <<Some(<<>>), Some(Endpoint), None, None>> }
    \cup { <<None, Some(Endpoint), i, q>> :
             i \in {None} \cup {Some(x) : x \in Ids},
             q \in {None} \cup {Some(x) : x \in Queries} }

FetchOptions ==
    { FetchOptionsOf(t[1], t[2], t[3], t[4], f, s, i) :
        t \in Targets, f \in {None, Some("callFetch")}, s \in BOOLEAN, i \in BOOLEAN }

----------------------------------------------------------------------------
(* Query string *)

\* encodeURIComponent on one character of the alphabet of the model
EncodeChar(c) ==
    CASE c = "%" -> <<"%", "2", "5">>
      [] c = "#" -> <<"%", "2", "3">>
      [] OTHER   -> <<c>>

RECURSIVE EncodeURIComponent(_)
EncodeURIComponent(s) ==
    IF s = <<>> THEN <<>> ELSE EncodeChar(Head(s)) \o EncodeURIComponent(Tail(s))

RECURSIVE Stringify(_)
\* qs.stringify(query, { encodeValuesOnly: true })
Stringify(query) ==
    IF query = <<>> THEN <<>>
    ELSE LET first == <<Head(query).key, "=">> \o EncodeURIComponent(Head(query).value)
         IN  IF Len(query) = 1 THEN first
             ELSE first \o <<"&">> \o Stringify(Tail(query))

\* String.prototype.replace with a string pattern: the first occurrence only
ReplaceFirst(s, pattern, replacement) ==
    LET n    == Len(pattern)
        hits == { i \in 1..(Len(s) - n + 1) : SubSeq(s, i, i + n - 1) = pattern }
    IN  IF hits = {} THEN s
        ELSE LET i == CHOOSE h \in hits : \A g \in hits : h <= g
             IN  SubSeq(s, 1, i - 1) \o replacement \o SubSeq(s, i + n, Len(s))

QueryString(query) ==
    IF query # None
    THEN <<"?">> \o ReplaceFirst(Stringify(query[1]),
                                 <<"%", "2", "5", "2", "3">>, <<"%", "2", "3">>)
    ELSE <<>>

----------------------------------------------------------------------------
(* URL and headers *)

\* `${id}`
IdToStr(id) == IF id.isNum THEN NumToStr(id.n) ELSE id.s

\* truthiness of an optional id: undefined, 0 and '' are falsy
TruthyId(o) == o # None /\ (IF o[1].isNum THEN o[1].n # 0 ELSE o[1].s # <<>>)

\* faulty variant of InvalidPath: compares with the default version instead
\* of the configured one
InvalidPath_DefaultVersion(c, o) ==
    TruthyStr(o.path) /\ ~StartsWith(o.path[1], <<"/", "v", "1">>)

\* the first usage check: a path that does not start with '/' + version
InvalidPath(c, o) ==
    TruthyStr(o.path) /\ ~StartsWith(o.path[1], <<"/">> \o c.apiVersion)

\* the second usage check: neither a path nor an endpoint
MissingTarget(c, o) == ~TruthyStr(o.path) /\ ~TruthyStr(o.endpoint)

InvalidPathError(c, o) ==
    PlainError(<<"[BTF-API] Invalid path : must starts with '/">> \o c.apiVersion
               \o <<"', got '">> \o o.path[1] \o <<"'">>)

MissingTargetError == PlainError(<<"[BTF-API] You must provide either a path or an endpoint">>)

\* the url of a call that passes both usage checks
Url(c, o) ==
    IF TruthyStr(o.path)
    THEN c.domain \o o.path[1]
    ELSE IF TruthyId(o.id)
         THEN c.domain \o <<"/">> \o c.apiVersion \o <<"/">> \o o.endpoint[1]
              \o <<"/">> \o IdToStr(o.id[1]) \o QueryString(o.query)
         ELSE c.domain \o <<"/">> \o c.apiVersion \o <<"/">> \o o.endpoint[1]
              \o QueryString(o.query)

\* faulty variant of Headers: sends the key header whatever the key is
Headers_AlwaysKey(c) ==
    [Accept |-> "application/json",
     XButterflyKey |-> IF c.publicKey # None THEN c.publicKey ELSE Some(<<>>)]

\* Accept always, X-Butterfly-Key when the client has a truthy public key
Headers(c) ==
    [Accept |-> "application/json",
     XButterflyKey |-> IF TruthyStr(c.publicKey) THEN c.publicKey ELSE None]

\* fetch ?? this.fetcher
Fetcher(c, o) == Coalesce(o.fetch, c.fetcher)

----------------------------------------------------------------------------
(* Classification of a settled transport call *)

Rejected(error) == [kind |-> "rejected", error |-> Some(error), value |-> None]

Resolved(value) == [kind |-> "resolved", error |-> None, value |-> Some(value)]

\* faulty variant of OnTransportError: wraps whatever was raised
OnTransportError_WrapAll(error) == NetworkError(error)

\* the catch block around the transport call
OnTransportError(error) ==
    IF error.class = "TypeError" \/ (error.isError /\ error.name = "AbortError")
    THEN NetworkError(error)
    ELSE error

isApiErrorResponse(value) == value.isObject /\ value.hasErrors /\ value.errorsIsArray

\* faulty variant of IsRedirectStatus: excludes the lower boundary
IsRedirectStatus_Exclusive(status) == status > 300 /\ status < 400

\* err.status >= 300 && err.status < 400
IsRedirectStatus(status) == status >= 300 /\ status < 400

\* faulty variant of Classify: reports the HTTP status instead of the status
\* of the entry
Classify_HttpStatus(res, data) ==
    IF isApiErrorResponse(data) /\ Len(data.errors) > 0
    THEN LET err == data.errors[1]
         IN  IF err.isNull
             THEN Rejected(ApiError(res.status, "Unknown error", None))
             ELSE IF IsRedirectStatus(err.status)
                  THEN Rejected(RedirectError(err.status, err.detail))
                  ELSE Rejected(ApiError(res.status, err.title, Some(err.detail)))
    ELSE IF ~Ok(res)
         THEN Rejected(ApiError(res.status, "Unknown error", None))
         ELSE Resolved(data)

\* faulty variant of Classify: leaves out the check of the HTTP status
Classify_NoStatusCheck(res, data) ==
    IF isApiErrorResponse(data) /\ Len(data.errors) > 0
    THEN LET err == data.errors[1]
         IN  IF err.isNull
             THEN Rejected(ApiError(res.status, "Unknown error", None))
             ELSE IF IsRedirectStatus(err.status)
                  THEN Rejected(RedirectError(err.status, err.detail))
                  ELSE Rejected(ApiError(err.status, err.title, Some(err.detail)))
    ELSE Resolved(data)

\* faulty variant of Classify: looks at the errors array only when the HTTP
\* status is not a success status
Classify_StatusFirst(res, data) ==
    IF Ok(res)
    THEN Resolved(data)
    ELSE IF isApiErrorResponse(data) /\ Len(data.errors) > 0
         THEN LET err == data.errors[1]
              IN  IF err.isNull
                  THEN Rejected(ApiError(res.status, "Unknown error", None))
                  ELSE IF IsRedirectStatus(err.status)
                       THEN Rejected(RedirectError(err.status, err.detail))
                       ELSE Rejected(ApiError(err.status, err.title, Some(err.detail)))
         ELSE Rejected(ApiError(res.status, "Unknown error", None))

\* what get does with the parsed body data of the response res
Classify(res, data) ==
    IF isApiErrorResponse(data) /\ Len(data.errors) > 0
    THEN LET err == data.errors[1]
         IN  IF err.isNull
             THEN Rejected(ApiError(res.status, "Unknown error", None))
             ELSE IF IsRedirectStatus(err.status)
                  THEN Rejected(RedirectError(err.status, err.detail))
                  ELSE Rejected(ApiError(err.status, err.title, Some(err.detail)))
    ELSE IF ~Ok(res)
         THEN Rejected(ApiError(res.status, "Unknown error", None))
         ELSE Resolved(data)

----------------------------------------------------------------------------
(* State machine *)

Settled(res, error, aborted, data) ==
    [res |-> res, error |-> error, aborted |-> aborted, data |-> data]

CallIds == 1..MaxCalls

\* a get call of those in flight together: its position, its options, the
\* arguments of its transport call, how that call settled, what its
\* intercept callback was handed, how its promise settled
CallOf(p, o, r, s, i, out) ==
    [pc |-> p, opts |-> o, request |-> r, settled |-> s, intercepted |-> i,
     outcome |-> out]

IdleCall ==
    CallOf("idle", FetchOptionsOf(None, None, None, None, None, FALSE, FALSE),
           None, None, <<>>, None)

NoCalls == [i \in CallIds |-> IdleCall]

Init ==
    /\ client \in {Constructor(options) : options \in ClientOptions}
    /\ calls = NoCalls
    /\ pc = "idle"
    /\ opts = FetchOptionsOf(None, None, None, None, None, FALSE, FALSE)
    /\ request = None
    /\ fetchCalls = 0
    /\ settled = None
    /\ intercepted = <<>>
    /\ trace = <<>>
    /\ outcome = None
    /\ utilCall = <<>>
    /\ utilResult = <<>>
    /\ utilStack = <<>>
    /\ childrenIds = <<>>

\* client.get(o), up to the first await: the usage checks, then the
\* transport call
Get(o) ==
    /\ pc = "idle"
    /\ opts' = o
    /\ settled' = None
    /\ intercepted' = <<>>
    /\ IF InvalidPath(client, o) \/ MissingTarget(client, o)
       THEN /\ outcome' = Some(Rejected(IF InvalidPath(client, o)
                                        THEN InvalidPathError(client, o)
                                        ELSE MissingTargetError))
            /\ request' = None
            /\ fetchCalls' = 0
            /\ trace' = <<"throw">>
            /\ pc' = "done"
       ELSE /\ request' = Some([url     |-> Url(client, o),
                                headers |-> Headers(client),
                                signal  |-> o.signal,
                                fetcher |-> Fetcher(client, o)])
            /\ fetchCalls' = 1
            /\ trace' = <<"fetch">>
            /\ outcome' = None
            /\ pc' = "fetching"
    /\ UNCHANGED <<utilVars, calls, client, utilVars>>

\* faulty variant of FetchResolves: reads the body before the callback runs
FetchResolves_JsonFirst(res) ==
    /\ pc = "fetching"
    /\ settled' = Some(Settled(Some(res), None, FALSE, None))
    /\ IF opts.intercept
       THEN /\ intercepted' = Append(intercepted, res)
            /\ trace' = trace \o <<"json", "intercept">>
       ELSE /\ intercepted' = intercepted
            /\ trace' = trace \o <<"json">>
    /\ pc' = "parsing"
    /\ UNCHANGED <<utilVars, calls, client, opts, request, fetchCalls, outcome>>

\* faulty variant of FetchResolves: runs the callback on success statuses only
FetchResolves_InterceptOkOnly(res) ==
    /\ pc = "fetching"
    /\ settled' = Some(Settled(Some(res), None, FALSE, None))
    /\ IF opts.intercept /\ Ok(res)
       THEN /\ intercepted' = Append(intercepted, res)
            /\ trace' = trace \o <<"intercept", "json">>
       ELSE /\ intercepted' = intercepted
            /\ trace' = trace \o <<"json">>
    /\ pc' = "parsing"
    /\ UNCHANGED <<utilVars, calls, client, opts, request, fetchCalls, outcome>>

\* the transport resolves with res: the intercept callback, then res.json()
FetchResolves(res) ==
    /\ pc = "fetching"
    /\ settled' = Some(Settled(Some(res), None, FALSE, None))
    /\ IF opts.intercept
       THEN /\ intercepted' = Append(intercepted, res)
            /\ trace' = trace \o <<"intercept", "json">>
       ELSE /\ intercepted' = intercepted
            /\ trace' = trace \o <<"json">>
    /\ pc' = "parsing"
    /\ UNCHANGED <<utilVars, calls, client, opts, request, fetchCalls, outcome>>

\* faulty variant of FetchThrows: calls the transport again after a failure
FetchThrows_Retry(error, aborted) ==
    /\ pc = "fetching"
    /\ fetchCalls' = fetchCalls + 1
    /\ trace' = Append(trace, "fetch")
    /\ UNCHANGED <<utilVars, calls, client, pc, opts, request, settled, intercepted, outcome>>

\* the transport rejects with error; aborted tells a cancellation through
\* the signal of the call from a failure of the transport itself
FetchThrows(error, aborted) ==
    /\ pc = "fetching"
    /\ settled' = Some(Settled(None, Some(error), aborted, None))
    /\ outcome' = Some(Rejected(OnTransportError(error)))
    /\ trace' = Append(trace, "throw")
    /\ pc' = "done"
    /\ UNCHANGED <<utilVars, calls, client, opts, request, fetchCalls, intercepted>>

FetchFails(error) == FetchThrows(error, FALSE)

\* controller.abort() while the transport call is pending: the transport
\* rejects with the reason of the signal
FetchAborted(reason) ==
    /\ opts.signal
    /\ FetchThrows(reason, TRUE)

\* res.json() resolves with the parsed body, which get classifies
JsonResolves ==
    /\ pc = "parsing"
    /\ settled[1].res[1].body # None
    /\ LET res  == settled[1].res[1]
           data == res.body[1]
       IN  /\ settled' = Some([settled[1] EXCEPT !.data = Some(data)])
           /\ outcome' = Some(Classify(res, data))
           /\ trace' = Append(trace, IF Classify(res, data).kind = "resolved"
                                     THEN "return" ELSE "throw")
    /\ pc' = "done"
    /\ UNCHANGED <<utilVars, calls, client, opts, request, fetchCalls, intercepted>>

\* res.json() rejects and nothing in get catches it
JsonThrows(error, aborted) ==
    /\ pc = "parsing"
    /\ settled' = Some([settled[1] EXCEPT !.aborted = aborted])
    /\ outcome' = Some(Rejected(error))
    /\ trace' = Append(trace, "throw")
    /\ pc' = "done"
    /\ UNCHANGED <<utilVars, calls, client, opts, request, fetchCalls, intercepted>>

\* the body is not valid JSON
JsonFails ==
    /\ pc = "parsing"
    /\ settled[1].res[1].body = None
    /\ JsonThrows(SyntaxErrorValue, FALSE)

\* controller.abort() while the body is being read: the read rejects with
\* the reason of the signal
JsonAborted(reason) ==
    /\ opts.signal
    /\ JsonThrows(reason, TRUE)

\* the caller has observed the settled promise; the client is ready for
\* the next call
Return ==
    /\ pc = "done"
    /\ pc' = "idle"
    /\ opts' = FetchOptionsOf(None, None, None, None, None, FALSE, FALSE)
    /\ request' = None
    /\ fetchCalls' = 0
    /\ settled' = None
    /\ intercepted' = <<>>
    /\ trace' = <<>>
    /\ outcome' = None
    /\ UNCHANGED <<utilVars, calls, client, utilVars>>

Next ==
    \/ \E o \in FetchOptions : Get(o)
    \/ \E res \in Responses : FetchResolves(res)
    \/ \E error \in ConnectivityFailures : FetchFails(error)
    \/ \E reason \in AbortReasons : FetchAborted(reason)
    \/ JsonResolves
    \/ JsonFails
    \/ \E reason \in AbortReasons : JsonAborted(reason)
    \/ Return

Spec == Init /\ [][Next]_vars

TypeOK ==
    /\ pc \in {"idle", "fetching", "parsing", "done"}
    /\ fetchCalls \in 0..1
    /\ Len(request) <= 1 /\ Len(settled) <= 1 /\ Len(outcome) <= 1

----------------------------------------------------------------------------
(* Concurrent calls of get on one client *)
(* Each call of CallIds runs the steps of get on its own; the steps of    *)
(* different calls interleave at the awaits.  The only state the calls    *)
(* share is the client.                                                   *)

ConcClientOptions ==
    [domain    : {<<"h">>},
     publicKey : {None, Some(<<"k">>)},
     version   : {None, Some(<<"v", "2">>)},
     fetch     : {None, Some("clientFetch")}]

\* a path valid under version v1 only, or the endpoint; with and without a
\* per-call transport and an intercept callback
ConcFetchOptions ==
    { FetchOptionsOf(t[1], t[2], None, None, f, FALSE, i) :
        t \in { <<Some(<<"/", "v", "1", "/", "p">>), None>>, <<None, Some(Endpoint)>> },
        f \in {None, Some("callFetch")},
        i \in BOOLEAN }

\* a success, a failure without errors array, a redirect entry, a body that
\* is not JSON
ConcResponses ==
    { [status |-> 200, body |-> Some(JsonValue(TRUE, FALSE, FALSE, <<>>, "{data, included, links}"))],
      [status |-> 404, body |-> Some(JsonValue(FALSE, FALSE, FALSE, <<>>, "null"))],
      [status |-> 200, body |-> Some(JsonValue(TRUE, TRUE, TRUE, <<ErrorEntry(300, "Moved", "/v1/new")>>, "{errors: [...]}"))],
      [status |-> 200, body |-> None] }

ConcInit ==
    /\ client \in {Constructor(options) : options \in ConcClientOptions}
    /\ calls = NoCalls
    /\ pc = "idle"
    /\ opts = FetchOptionsOf(None, None, None, None, None, FALSE, FALSE)
    /\ request = None
    /\ fetchCalls = 0
    /\ settled = None
    /\ intercepted = <<>>
    /\ trace = <<>>
    /\ outcome = None
    /\ utilCall = <<>>
    /\ utilResult = <<>>
    /\ utilStack = <<>>
    /\ childrenIds = <<>>

\* what no step of a concurrent call touches
aloneVars == <<pc, opts, request, fetchCalls, settled, intercepted, trace, outcome, utilVars>>

\* faulty variant of ConcGet: the per-call transport is stored in the client
ConcGet_StoresOverride(i, o) ==
    /\ calls[i].pc = "idle"
    /\ calls' = [calls EXCEPT ![i] =
         IF InvalidPath(client, o) \/ MissingTarget(client, o)
         THEN CallOf("done", o, None, None, <<>>,
                     Some(Rejected(IF InvalidPath(client, o)
                                   THEN InvalidPathError(client, o)
                                   ELSE MissingTargetError)))
         ELSE CallOf("fetching", o,
                     Some([url     |-> Url(client, o),
                           headers |-> Headers(client),
                           signal  |-> o.signal,
                           fetcher |-> Fetcher(client, o)]),
                     None, <<>>, None)]
    /\ client' = [client EXCEPT !.fetcher = Fetcher(client, o)]
    /\ UNCHANGED aloneVars

\* call i: client.get(o) up to the first await; the client is read, never
\* written
ConcGet(i, o) ==
    /\ calls[i].pc = "idle"
    /\ calls' = [calls EXCEPT ![i] =
         IF InvalidPath(client, o) \/ MissingTarget(client, o)
         THEN CallOf("done", o, None, None, <<>>,
                     Some(Rejected(IF InvalidPath(client, o)
                                   THEN InvalidPathError(client, o)
                                   ELSE MissingTargetError)))
         ELSE CallOf("fetching", o,
                     Some([url     |-> Url(client, o),
                           headers |-> Headers(client),
                           signal  |-> o.signal,
                           fetcher |-> Fetcher(client, o)]),
                     None, <<>>, None)]
    /\ UNCHANGED <<client, aloneVars>>

\* the transport call of call i resolves with res: the intercept callback,
\* then res.json()
ConcFetchResolves(i, res) ==
    /\ calls[i].pc = "fetching"
    /\ calls' = [calls EXCEPT ![i] =
         [@ EXCEPT !.pc = "parsing",
                   !.settled = Some(Settled(Some(res), None, FALSE, None)),
                   !.intercepted = IF calls[i].opts.intercept
                                   THEN Append(@, res) ELSE @]]
    /\ UNCHANGED <<client, aloneVars>>

\* the transport call of call i rejects with error
ConcFetchFails(i, error) ==
    /\ calls[i].pc = "fetching"
    /\ calls' = [calls EXCEPT ![i] =
         [@ EXCEPT !.pc = "done",
                   !.settled = Some(Settled(None, Some(error), FALSE, None)),
                   !.outcome = Some(Rejected(OnTransportError(error)))]]
    /\ UNCHANGED <<client, aloneVars>>

\* res.json() of call i resolves with the parsed body, which get classifies
ConcJsonResolves(i) ==
    /\ calls[i].pc = "parsing"
    /\ calls[i].settled[1].res[1].body # None
    /\ LET res  == calls[i].settled[1].res[1]
           data == res.body[1]
       IN  calls' = [calls EXCEPT ![i] =
             [@ EXCEPT !.pc = "done",
                       !.settled = Some([calls[i].settled[1] EXCEPT !.data = Some(data)]),
                       !.outcome = Some(Classify(res, data))]]
    /\ UNCHANGED <<client, aloneVars>>

\* res.json() of call i rejects: the body is not valid JSON
ConcJsonFails(i) ==
    /\ calls[i].pc = "parsing"
    /\ calls[i].settled[1].res[1].body = None
    /\ calls' = [calls EXCEPT ![i] =
         [@ EXCEPT !.pc = "done", !.outcome = Some(Rejected(SyntaxErrorValue))]]
    /\ UNCHANGED <<client, aloneVars>>

\* the caller of call i has observed the settled promise
ConcReturn(i) ==
    /\ calls[i].pc = "done"
    /\ calls' = [calls EXCEPT ![i] = IdleCall]
    /\ UNCHANGED <<client, aloneVars>>

ConcNext ==
    \/ \E i \in CallIds, o \in ConcFetchOptions : ConcGet(i, o)
    \/ \E i \in CallIds, res \in ConcResponses : ConcFetchResolves(i, res)
    \/ \E i \in CallIds : ConcFetchFails(i, TypeErrorValue)
    \/ \E i \in CallIds : ConcJsonResolves(i)
    \/ \E i \in CallIds : ConcJsonFails(i)
    \/ \E i \in CallIds : ConcReturn(i)

ConcSpec == ConcInit /\ [][ConcNext]_vars

----------------------------------------------------------------------------
(* Utility functions: common parts *)

\* what a call of a utility function produced: a value, or a thrown Error
Returned(value) == [kind |-> "returned", value |-> value, error |-> None]

Threw(error) == [kind |-> "threw", value |-> <<>>, error |-> Some(error)]

\* the utility functions are pure: while one is studied the client is idle
ClientIdle ==
    /\ client = Constructor([domain |-> <<"h">>, publicKey |-> None,
                             version |-> None, fetch |-> None])
    /\ pc = "idle"
    /\ opts = FetchOptionsOf(None, None, None, None, None, FALSE, FALSE)
    /\ request = None
    /\ fetchCalls = 0
    /\ settled = None
    /\ intercepted = <<>>
    /\ trace = <<>>
    /\ outcome = None
    /\ calls = NoCalls

----------------------------------------------------------------------------
(* getMediaUrl *)
(* A url is the sequence of the pieces the template literal joins: the    *)
(* separators '/', '-' and '.' are one piece each, and so is every value  *)
(* the template interpolates, except numbers, printed digit by digit.     *)

MediaFormats == {"default", "source", "thumb", "square", "cover", "stories"}

MediaExtensions == {"jpg", "webp", "avif", "png", "mp4", "mp3", "gif"}

VideoDefinitions == {"hd", "sd"}

MediaTypes == {"image", "video", "audio"}

Mimetypes == {"image/gif", "image/jpeg"}

\* media.attributes.fingerprints: one fingerprint per format
Fingerprints == [f \in MediaFormats |->
    CASE f = "default" -> "fp-default" [] f = "source" -> "fp-source"
      [] f = "thumb" -> "fp-thumb"     [] f = "square" -> "fp-square"
      [] f = "cover" -> "fp-cover"     [] OTHER -> "fp-stories"]

Medias ==
    [id : {123}, type : MediaTypes, mimetype : Mimetypes, fingerprints : {Fingerprints}]

Widths == {0, 300}

GetMediaUrlOptions ==
    [domain     : {<<"D">>},
     media      : Medias,
     format     : {None} \cup {Some(f) : f \in MediaFormats},
     width      : {None} \cup {Some(w) : w \in Widths},
     slug       : {None, Some("x")},
     ext        : {None} \cup {Some(e) : e \in MediaExtensions},
     definition : {None} \cup {Some(d) : d \in VideoDefinitions}]

\* faulty variant of IsPlayableExt: every extension counts as playable
IsPlayableExt_AnyExt(ext) == ext # None

\* ext === 'mp4' || ext === 'mp3'
IsPlayableExt(ext) == ext = Some("mp4") \/ ext = Some("mp3")

\* faulty variant of PlayableError: does not ask for a definition
PlayableError_NoDefinitionCheck(media, format, ext, definition) ==
    IF media.type = "video" \/ media.type = "audio"
    THEN IF format # "default" /\ format # "source"
         THEN Some(PlainError(<<"[BTF-MEDIA] Format '", format, "' is not allowed for ",
                                media.type, " with ext .", ext[1],
                                ". Use 'default' or 'source'.">>))
         ELSE None
    ELSE Some(PlainError(<<"[BTF-MEDIA] Invalid media type (", media.type,
                           ") for extension .", ext[1]>>))

\* faulty variant of PlayableError: asks for the definition before it looks
\* at the format
PlayableError_DefinitionFirst(media, format, ext, definition) ==
    IF media.type = "video" \/ media.type = "audio"
    THEN IF definition = None
         THEN Some(PlainError(<<"[BTF-MEDIA] ", media.type,
                                " requires 'definition' parameter for extension .",
                                ext[1]>>))
         ELSE IF format # "default" /\ format # "source"
              THEN Some(PlainError(<<"[BTF-MEDIA] Format '", format, "' is not allowed for ",
                                     media.type, " with ext .", ext[1],
                                     ". Use 'default' or 'source'.">>))
              ELSE None
    ELSE Some(PlainError(<<"[BTF-MEDIA] Invalid media type (", media.type,
                           ") for extension .", ext[1]>>))

\* the checks of a playable extension: <<>> or <<the Error thrown>>
PlayableError(media, format, ext, definition) ==
    IF media.type = "video" \/ media.type = "audio"
    THEN IF format # "default" /\ format # "source"
         THEN Some(PlainError(<<"[BTF-MEDIA] Format '", format, "' is not allowed for ",
                                media.type, " with ext .", ext[1],
                                ". Use 'default' or 'source'.">>))
         ELSE IF definition = None
              THEN Some(PlainError(<<"[BTF-MEDIA] ", media.type,
                                     " requires 'definition' parameter for extension .",
                                     ext[1]>>))
              ELSE None
    ELSE Some(PlainError(<<"[BTF-MEDIA] Invalid media type (", media.type,
                           ") for extension .", ext[1]>>))

\* faulty variant of GifRuleViolated: lets the default format through
GifRuleViolated_RawFormat(media, format, ext) ==
    media.mimetype = "image/gif" /\ ext = Some("gif")
      /\ format # "source" /\ format # "default"

\* mimetype === 'image/gif' && ext === 'gif' && format !== 'source'
GifRuleViolated(media, format, ext) ==
    media.mimetype = "image/gif" /\ ext = Some("gif") /\ format # "source"

GifError == PlainError(<<"[BTF-MEDIA] GIF images must use 'source' format">>)

\* faulty variant of MediaSize: the width wins over the definition
MediaSize_WidthFirst(definition, width) ==
    IF width # None THEN Some(NumToStr(width[1]))
    ELSE IF definition # None THEN Some(<<definition[1]>>)
    ELSE None

\* `${definition ?? width}`: <<>> when both are undefined
MediaSize(definition, width) ==
    IF definition # None THEN Some(<<definition[1]>>)
    ELSE IF width # None THEN Some(NumToStr(width[1]))
    ELSE None

getMediaUrl(options) ==
    LET domain      == options.domain
        media       == options.media
        format      == Coalesce(options.format, "default")
        slug        == Coalesce(options.slug, "media")
        ext         == options.ext
        definition  == options.definition
        playable    == IF IsPlayableExt(ext)
                       THEN PlayableError(media, format, ext, definition)
                       ELSE None
        fingerprint == media.fingerprints[format]
        extension   == IF ext # None THEN <<".", ext[1]>> ELSE <<>>
        size        == MediaSize(definition, options.width)
    IN  IF playable # None
        THEN Threw(playable[1])
        ELSE IF GifRuleViolated(media, format, ext)
        THEN Threw(GifError)
        ELSE IF size = None
        THEN Returned(domain \o <<"/", "v1", "/">> \o NumToStr(media.id)
                      \o <<"-", format, "/", fingerprint, "/", slug>> \o extension)
        ELSE Returned(domain \o <<"/", "v1", "/">> \o NumToStr(media.id)
                      \o <<"-", format, "-">> \o size[1]
                      \o <<"/", fingerprint, "/", slug>> \o extension)

MediaInit ==
    /\ ClientIdle
    /\ utilCall \in GetMediaUrlOptions
    /\ utilResult = None
    /\ utilStack = <<>>
    /\ childrenIds = <<>>

\* getMediaUrl(utilCall)
CallGetMediaUrl ==
    /\ utilResult = None
    /\ utilResult' = Some(getMediaUrl(utilCall))
    /\ UNCHANGED <<clientVars, calls, utilCall, utilStack, childrenIds>>

MediaNext == CallGetMediaUrl

MediaSpec == MediaInit /\ [][MediaNext]_vars

----------------------------------------------------------------------------
(* getRelated *)

\* a resource of the included array: its identity, and a tag that tells two
\* resources of the same identity apart
Resource(id, type, tag) == [id |-> id, type |-> type, tag |-> tag]

ResourceIds == { NumId(1), NumId(2), StrId(<<"1">>) }

ResourceTypes == {"post", "image"}

Resources == { Resource(i, t, g) : i \in ResourceIds, t \in ResourceTypes, g \in {"a", "b"} }

Pools == SeqsUpTo(Resources, MaxPool)

\* the first argument of getRelated: null, undefined, or a Related pointer
Pointer(kind, id, type) == [kind |-> kind, id |-> id, type |-> type]

Pointers ==
    { Pointer("null", NumId(0), ""), Pointer("undefined", NumId(0), "") }
    \cup { Pointer("related", i, t) : i \in ResourceIds, t \in ResourceTypes }

GetRelatedArgs == [related : Pointers, included : Pools]

\* faulty variant of RelatedMatches: compares the ids only
RelatedMatches_IdOnly(resource, related) == resource.id = related.id

\* resource.id === related.id && resource.type === related.type
RelatedMatches(resource, related) ==
    resource.id = related.id /\ resource.type = related.type

\* Array.prototype.find: <<>> or <<the first element that matches>>
FindRelated(included, related) ==
    LET hits == { i \in 1..Len(included) : RelatedMatches(included[i], related) }
    IN  IF hits = {} THEN None
        ELSE Some(included[CHOOSE i \in hits : \A j \in hits : i <= j])

\* the value returned: <<>> is undefined
getRelated(related, included) ==
    IF related.kind # "related" THEN None ELSE FindRelated(included, related)

RelatedInit ==
    /\ ClientIdle
    /\ utilCall \in GetRelatedArgs
    /\ utilResult = None
    /\ utilStack = <<>>
    /\ childrenIds = <<>>

\* getRelated(utilCall.related, utilCall.included)
CallGetRelated ==
    /\ utilResult = None
    /\ utilResult' = Some(Returned(getRelated(utilCall.related, utilCall.included)))
    /\ UNCHANGED <<clientVars, calls, utilCall, utilStack, childrenIds>>

RelatedNext == CallGetRelated

RelatedSpec == RelatedInit /\ [][RelatedNext]_vars

----------------------------------------------------------------------------
(* getCategoryChildrenIds *)
(* findChildren calls itself: each pending call is a frame of utilStack,  *)
(* and each step of the loop of the innermost call is one action.         *)

\* a category: its id and the id of parentCategory.data, <<>> when null
Category(id, parent) == [id |-> id, parent |-> parent]

CategoryIds == 1..4

\* the ids a parentCategory pointer may hold
ParentIds == 1..3

Categories ==
    { Category(i, p) : i \in CategoryIds, p \in {None} \cup {Some(q) : q \in ParentIds} }

\* the category the collection starts from: listed or not
StartCategories == { Category(1, None), Category(9, None) }

GetCategoryChildrenIdsArgs ==
    [category : StartCategories, categories : SeqsUpTo(Categories, MaxCats)]

\* the deepest call stack the engine allows; deeper than any acyclic list
\* of the model needs
MaxDepth == MaxCats + 3

RECURSIVE ChildrenOf(_, _)
\* categories.filter(cat => cat.relationships.parentCategory.data?.id === parentId),
\* as the ids of the categories kept
ChildrenOf(categories, parentId) ==
    IF categories = <<>> THEN <<>>
    ELSE IF Head(categories).parent = Some(parentId)
         THEN <<Head(categories).id>> \o ChildrenOf(Tail(categories), parentId)
         ELSE ChildrenOf(Tail(categories), parentId)

\* a pending call: of getCategoryChildrenIds itself, or of findChildren with
\* the children its loop has still to visit
Frame(fn, parentId, children) == [fn |-> fn, parentId |-> parentId, children |-> children]

\* faulty variant of InitialChildrenIds: an unlisted category yields nothing
InitialChildrenIds_OnlyIfListed(category, categories) ==
    IF \E i \in 1..Len(categories) : categories[i].id = category.id
    THEN <<category.id>>
    ELSE <<>>

\* const childrenIds = [category.id]
InitialChildrenIds(category, categories) == <<category.id>>

CategoryInit ==
    /\ ClientIdle
    /\ utilCall \in GetCategoryChildrenIdsArgs
    /\ utilResult = None
    /\ utilStack = <<>>
    /\ childrenIds = <<>>

\* getCategoryChildrenIds(category, categories) up to its call of
\* findChildren(category.id), whose filter runs on entry
CallGetCategoryChildrenIds ==
    /\ utilResult = None
    /\ utilStack = <<>>
    /\ childrenIds' = InitialChildrenIds(utilCall.category, utilCall.categories)
    /\ utilStack' =
         << Frame("getCategoryChildrenIds", utilCall.category.id, <<>>),
            Frame("findChildren", utilCall.category.id,
                  ChildrenOf(utilCall.categories, utilCall.category.id)) >>
    /\ UNCHANGED <<clientVars, calls, utilCall, utilResult>>

\* faulty variant of FindChildrenVisit: the child's id is pushed but
\* findChildren(child.id) finds nothing, so only direct children are listed
FindChildrenVisit_DirectOnly ==
    /\ utilStack # <<>>
    /\ LET top == utilStack[Len(utilStack)]
       IN  /\ top.fn = "findChildren"
           /\ top.children # <<>>
           /\ Len(utilStack) < MaxDepth
           /\ childrenIds' = Append(childrenIds, Head(top.children))
           /\ utilStack' =
                Append([utilStack EXCEPT ![Len(utilStack)].children = Tail(top.children)],
                       Frame("findChildren", Head(top.children), <<>>))
    /\ UNCHANGED <<clientVars, calls, utilCall, utilResult>>

\* faulty variant of FindChildrenVisit: a visited set is kept, a child whose
\* id was already pushed is skipped
FindChildrenVisit_Visited ==
    /\ utilStack # <<>>
    /\ LET top == utilStack[Len(utilStack)]
           seen == \E i \in 1..Len(childrenIds) : childrenIds[i] = Head(top.children)
       IN  /\ top.fn = "findChildren"
           /\ top.children # <<>>
           /\ Len(utilStack) < MaxDepth
           /\ childrenIds' = IF seen THEN childrenIds
                              ELSE Append(childrenIds, Head(top.children))
           /\ utilStack' =
                Append([utilStack EXCEPT ![Len(utilStack)].children = Tail(top.children)],
                       Frame("findChildren", Head(top.children),
                             IF seen THEN <<>>
                             ELSE ChildrenOf(utilCall.categories, Head(top.children))))
    /\ UNCHANGED <<clientVars, calls, utilCall, utilResult>>

\* one turn of the loop of the innermost findChildren: push the child's id,
\* then call findChildren(child.id)
FindChildrenVisit ==
    /\ utilStack # <<>>
    /\ LET top == utilStack[Len(utilStack)]
       IN  /\ top.fn = "findChildren"
           /\ top.children # <<>>
           /\ Len(utilStack) < MaxDepth
           /\ childrenIds' = Append(childrenIds, Head(top.children))
           /\ utilStack' =
                Append([utilStack EXCEPT ![Len(utilStack)].children = Tail(top.children)],
                       Frame("findChildren", Head(top.children),
                             ChildrenOf(utilCall.categories, Head(top.children))))
    /\ UNCHANGED <<clientVars, calls, utilCall, utilResult>>

\* the loop of the innermost findChildren is over: it returns to its caller
FindChildrenReturn ==
    /\ utilStack # <<>>
    /\ LET top == utilStack[Len(utilStack)]
       IN  /\ top.fn = "findChildren"
           /\ top.children = <<>>
    /\ utilStack' = SubSeq(utilStack, 1, Len(utilStack) - 1)
    /\ UNCHANGED <<clientVars, calls, utilCall, utilResult, childrenIds>>

\* the call stack is full and findChildren calls itself once more: the
\* engine throws a RangeError, which nothing catches
FindChildrenOverflow ==
    /\ utilStack # <<>>
    /\ LET top == utilStack[Len(utilStack)]
       IN  /\ top.fn = "findChildren"
           /\ top.children # <<>>
           /\ Len(utilStack) >= MaxDepth
    /\ utilResult' = Some(Threw(ErrorValue("RangeError", "RangeError",
                                           <<"Maximum call stack size exceeded">>)))
    /\ utilStack' = <<>>
    /\ UNCHANGED <<clientVars, calls, utilCall, childrenIds>>

\* return childrenIds
ReturnChildrenIds ==
    /\ Len(utilStack) = 1
    /\ utilStack[1].fn = "getCategoryChildrenIds"
    /\ utilResult' = Some(Returned(childrenIds))
    /\ utilStack' = <<>>
    /\ UNCHANGED <<clientVars, calls, utilCall, childrenIds>>

CategoryNext ==
    \/ CallGetCategoryChildrenIds
    \/ FindChildrenVisit
    \/ FindChildrenReturn
    \/ FindChildrenOverflow
    \/ ReturnChildrenIds

CategorySpec == CategoryInit /\ [][CategoryNext]_vars

\* the call runs on one thread that nothing suspends: a step that can be
\* taken is taken
CategoryFairSpec == CategorySpec /\ WF_vars(CategoryNext)

----------------------------------------------------------------------------
(* Vocabulary of the properties *)

\* an option the caller supplied: present and not the empty string
Given(o) == o # None /\ Len(o[1]) > 0

\* the path of the call starts with '/' followed by the configured version
PathHasVersionPrefix ==
    LET prefix == <<"/">> \o client.apiVersion
        path   == opts.path[1]
    IN  /\ Len(path) >= Len(prefix)
        /\ \A i \in 1..Len(prefix) : path[i] = prefix[i]

\* the call of the current state is one the usage checks must refuse
UsageFault ==
    \/ Given(opts.path) /\ ~PathHasVersionPrefix
    \/ ~Given(opts.path) /\ ~Given(opts.endpoint)

InCall == pc # "idle"

Done == pc = "done"

Failed == Done /\ outcome[1].kind = "rejected"

Succeeded == Done /\ outcome[1].kind = "resolved"

\* the error the caller catches
Caught == outcome[1].error[1]

\* the transport returned a response
GotResponse == settled # None /\ settled[1].res # None

\* the body of the response was read and parsed
BodyParsed == GotResponse /\ settled[1].data # None

\* the parsed body has a non-empty errors array
HasErrorEntries ==
    LET data == settled[1].data[1]
    IN  data.isObject /\ data.hasErrors /\ data.errorsIsArray /\ data.errors # <<>>

\* the first entry of the errors array, when it is an entry with a status
FirstError == settled[1].data[1].errors[1]

HttpStatus == settled[1].res[1].status

\* the positions of an event in the trace of the call
Positions(event) == { i \in 1..Len(trace) : trace[i] = event }

----------------------------------------------------------------------------
(* Properties *)

\* C1: a call whose path is supplied but does not start with '/' followed by
\* the configured version, and a call that supplies neither path nor
\* endpoint, fails with a plain Error and never invokes the transport.
C1_UsageErrorBeforeNetwork ==
    (InCall /\ UsageFault) =>
        /\ Failed
        /\ Caught.class = "Error" /\ Caught.name = "Error"
        /\ fetchCalls = 0
        /\ request = None
        /\ Positions("fetch") = {}

\* a path sharing no prefix with the version, given together with an endpoint
C1_Witness ==
    /\ Done
    /\ opts.path = Some(<<"/", "v", "y">>)
    /\ opts.endpoint = Some(Endpoint)
    /\ fetchCalls = 0
    /\ Failed

\* C2: when the first entry e of the errors array of the parsed body has
\* 300 <= e.status < 400, get fails with a RedirectError with status e.status
\* and location e.detail, whatever the HTTP status and the later entries.
C2_RedirectFromBody ==
    (Done /\ BodyParsed /\ HasErrorEntries /\ ~FirstError.isNull
          /\ FirstError.status >= 300 /\ FirstError.status < 400) =>
        /\ Failed
        /\ Caught.class = "RedirectError"
        /\ Caught.status = Some(FirstError.status)
        /\ Caught.location = Some(FirstError.detail)

\* a redirect entry at the lower boundary, under HTTP 200, followed by a
\* server error entry
C2_Witness ==
    /\ Done /\ BodyParsed /\ HasErrorEntries
    /\ HttpStatus = 200
    /\ ~FirstError.isNull /\ FirstError.status = 300
    /\ Len(settled[1].data[1].errors) = 2
    /\ settled[1].data[1].errors[2].status = 500
    /\ Caught.class = "RedirectError"

\* C3: when the first entry e of the errors array has a status outside
\* [300, 400), get fails with an ApiError whose status, title and detail are
\* those of e, not the HTTP status, also under a 2xx HTTP status.
C3_ApiErrorFromBody ==
    (Done /\ BodyParsed /\ HasErrorEntries /\ ~FirstError.isNull
          /\ ~(FirstError.status >= 300 /\ FirstError.status < 400)) =>
        /\ Failed
        /\ Caught.class = "ApiError"
        /\ Caught.status = Some(FirstError.status)
        /\ Caught.title = Some(FirstError.title)
        /\ Caught.details = Some(FirstError.detail)

\* an entry with status 400 under HTTP 200
C3_Witness ==
    /\ Done /\ BodyParsed /\ HasErrorEntries
    /\ HttpStatus = 200
    /\ ~FirstError.isNull /\ FirstError.status = 400
    /\ Caught.class = "ApiError" /\ Caught.status = Some(400)

\* C4: when the parsed body has no non-empty errors array and the HTTP
\* status is not a success status, get fails with an ApiError whose status is
\* the HTTP status and whose title is 'Unknown error'.
C4_UnknownErrorFromStatus ==
    (Done /\ BodyParsed /\ ~HasErrorEntries /\ ~(HttpStatus \in 200..299)) =>
        /\ Failed
        /\ Caught.class = "ApiError"
        /\ Caught.status = Some(HttpStatus)
        /\ Caught.title = Some("Unknown error")

\* an empty errors array under HTTP 410
C4_Witness ==
    /\ Done /\ BodyParsed
    /\ settled[1].data[1].errorsIsArray /\ settled[1].data[1].errors = <<>>
    /\ HttpStatus = 410
    /\ Caught.class = "ApiError" /\ Caught.status = Some(410)

\* C5: get resolves if and only if the inputs are valid, the transport
\* returned a response, the body parsed, the parsed body has no non-empty
\* errors array and the HTTP status is a success status; it then resolves
\* with the parsed body itself.
C5_ResolvesIffClean ==
    Done =>
        /\ Succeeded <=> ( /\ ~UsageFault
                           /\ BodyParsed
                           /\ ~HasErrorEntries
                           /\ HttpStatus \in 200..299 )
        /\ Succeeded => outcome[1].value = settled[1].res[1].body

\* a resolved call on the object body, and the value is that body
C5_Witness ==
    /\ Succeeded
    /\ outcome[1].value[1].payload = "{data, included, links}"
    /\ opts.endpoint = Some(Endpoint)

C7_CancelledIsAbortError ==
    (Done /\ settled # None /\ settled[1].aborted) =>
        /\ Failed
        /\ Caught.name = "AbortError"

\* C8: when an intercept callback is supplied and the transport returns a
\* response, the callback is invoked exactly once, with that response, before
\* the body is read and before get returns or raises anything.
C8_InterceptOnceBeforeBody ==
    (opts.intercept /\ GotResponse) =>
        /\ intercepted = <<settled[1].res[1]>>
        /\ Cardinality(Positions("intercept")) = 1
        /\ Positions("json") # {}
        /\ \A i \in Positions("intercept") :
              \A j \in Positions("json") \cup Positions("throw") \cup Positions("return") :
                 i < j

\* an intercepted response whose body then makes get fail with a redirect
C8_Witness ==
    /\ Done /\ opts.intercept /\ BodyParsed
    /\ Failed /\ Caught.class = "RedirectError"
    /\ intercepted = <<settled[1].res[1]>>
    /\ trace = <<"fetch", "intercept", "json", "throw">>

\* C9 as stated: a call that supplies an intercept callback and fails, with
\* whichever kind of failure, has invoked the callback before failing.
C9_InterceptBeforeAnyFailure ==
    (Failed /\ opts.intercept) =>
        /\ Positions("intercept") # {}
        /\ \A i \in Positions("intercept") : \A j \in Positions("throw") : i < j

\* C9, amended: a call that supplies an intercept callback and fails after
\* the transport returned a response (with a redirect, an API failure or a
\* failure of the body read) has invoked the callback before failing; a call
\* that fails with a usage error or a transport failure has not invoked the
\* callback at all.
C9_InterceptBeforeFailureAfterResponse ==
    (Failed /\ opts.intercept) =>
        IF GotResponse
        THEN /\ Positions("intercept") # {}
             /\ \A i \in Positions("intercept") : \A j \in Positions("throw") : i < j
        ELSE /\ Positions("intercept") = {}
             /\ intercepted = <<>>

\* an intercepted response with a non-success status and no errors array
C9_Witness ==
    /\ Failed /\ opts.intercept /\ BodyParsed
    /\ ~HasErrorEntries
    /\ HttpStatus = 404
    /\ Caught.class = "ApiError"
    /\ Positions("intercept") = {2}

\* C10 as stated: every call of get invokes the transport exactly once,
\* whatever its outcome.
C10_ExactlyOneTransportCall ==
    Done => fetchCalls = 1

\* C10, amended: a call of get that passes the usage checks invokes the
\* transport exactly once, whatever its outcome, and a call that fails a usage
\* check does not invoke it; a failed call is never retried, and the only
\* other externally visible step of a call is the intercept callback.
C10_OneTransportCallUnlessUsageError ==
    InCall =>
        /\ fetchCalls = (IF UsageFault THEN 0 ELSE 1)
        /\ Cardinality(Positions("fetch")) = fetchCalls
        /\ Cardinality(Positions("intercept")) <= 1
        /\ (request = None) <=> UsageFault

\* a call whose transport call failed: one transport call, no retry
C10_Witness ==
    /\ Failed
    /\ settled # None /\ settled[1].error = Some(TypeErrorValue)
    /\ fetchCalls = 1
    /\ trace = <<"fetch", "throw">>

\* C11: when the transport returns a response whose body is not valid JSON,
\* get fails with an ApiError whose status is the HTTP status of the response.
C11_InvalidJsonIsApiError ==
    (Done /\ GotResponse /\ settled[1].res[1].body = None /\ ~settled[1].aborted) =>
        /\ Failed
        /\ Caught.class = "ApiError"
        /\ Caught.status = Some(HttpStatus)

\* the url the endpoint form asks for: the id segment whenever an id is given
EndpointUrl ==
    client.domain \o <<"/">> \o client.apiVersion \o <<"/">> \o opts.endpoint[1]
      \o (IF opts.id # None
          THEN <<"/">> \o (IF opts.id[1].isNum THEN NumToStr(opts.id[1].n) ELSE opts.id[1].s)
          ELSE <<>>)
      \o (IF opts.query = None THEN <<>> ELSE QueryString(opts.query))

\* C12: in the endpoint form the url passed to the transport is
\* domain/version/endpoint, then /id whenever an id is supplied, whichever
\* string or number it is, then the query string, empty without a query.
C12_EndpointUrlHasEveryId ==
    (request # None /\ ~Given(opts.path) /\ Given(opts.endpoint)) =>
        request[1].url = EndpointUrl

\* C13: every transport call carries Accept: application/json, and carries
\* X-Butterfly-Key with the configured key exactly when the client was
\* constructed with a (non-empty) public key.
C13_Headers ==
    request # None =>
        /\ request[1].headers.Accept = "application/json"
        /\ IF Given(client.publicKey)
           THEN request[1].headers.XButterflyKey = client.publicKey
           ELSE request[1].headers.XButterflyKey = None

\* a transport call of a client constructed with the key 'k'
C13_Witness ==
    /\ pc = "fetching"
    /\ client.publicKey = Some(<<"k">>)
    /\ request[1].headers.XButterflyKey = Some(<<"k">>)
    /\ request[1].headers.Accept = "application/json"

\* the path of the call starts with '/' + version + '/'
PathHasVersionSegment ==
    LET prefix == <<"/">> \o client.apiVersion \o <<"/">>
        path   == opts.path[1]
    IN  /\ Len(path) >= Len(prefix)
        /\ \A i \in 1..Len(prefix) : path[i] = prefix[i]

\* C14: get accepts a path only if it starts with '/' + version + '/'; any
\* other path, such as one whose first segment merely begins with the
\* characters of the version, is rejected with an Error.
C14_PathNeedsVersionSegment ==
    (InCall /\ Given(opts.path) /\ ~PathHasVersionSegment) =>
        /\ Failed
        /\ Caught.class = "Error"
        /\ fetchCalls = 0

\* C22: whatever domain the client was constructed with, the stored domain
\* does not end with '/', and the url of every transport call has no '//'
\* (the domains, paths and endpoints of the model hold none of their own).
C22_NoTrailingSlash ==
    request # None =>
        /\ ~EndsWith(client.domain, <<"/">>)
        /\ ~Includes(request[1].url, <<"/", "/">>)

\* C25: the url of every transport call, query string included, holds no
\* '%2523'.
C25_NoDoublyEscapedHash ==
    request # None => ~Includes(request[1].url, <<"%", "2", "5", "2", "3">>)

\* the calls that have started and not yet been observed by their caller
Started == { i \in CallIds : calls[i].pc # "idle" }

\* C26 (state part): a call's transport is its own override when it passed
\* one and the client's default otherwise; its headers carry the client's
\* key; two calls with the same options have made the same transport call,
\* and have the same outcome once their transport calls settled alike.
CallsIndependent ==
    /\ \A i \in Started :
          calls[i].request # None =>
            /\ calls[i].request[1].fetcher =
                 (IF calls[i].opts.fetch # None THEN calls[i].opts.fetch[1]
                  ELSE client.fetcher)
            /\ StartsWith(calls[i].request[1].url, client.domain \o <<"/">>)
            /\ calls[i].request[1].headers.XButterflyKey =
                 (IF TruthyStr(client.publicKey) THEN client.publicKey ELSE None)
    /\ \A i \in Started : \A j \in Started :
          calls[i].opts = calls[j].opts =>
            /\ calls[i].request = calls[j].request
            /\ ( /\ calls[i].pc = "done" /\ calls[j].pc = "done"
                 /\ calls[i].settled = calls[j].settled )
               => calls[i].outcome = calls[j].outcome

\* C26: under every interleaving of the steps of concurrent get calls, no
\* step changes the client's configuration, a per-call transport is used by
\* the call that passed it and by no other, and the url, headers and outcome
\* of a call are those of any other call with the same options and the same
\* response.
C26_ConcurrentCallsIndependent ==
    [](CallsIndependent) /\ [][client' = client]_vars

\* a call with a per-call transport is still waiting for its response while a
\* call without one, started on the same client, has resolved through the
\* client's default transport
C26_Witness ==
    /\ calls[1].pc = "fetching"
    /\ calls[1].opts.fetch = Some("callFetch")
    /\ calls[1].request[1].fetcher = "callFetch"
    /\ calls[2].pc = "done"
    /\ calls[2].opts.fetch = None
    /\ calls[2].opts.path = calls[1].opts.path
    /\ calls[2].request[1].fetcher = "clientFetch"
    /\ calls[2].outcome[1].kind = "resolved"
    /\ client.fetcher = "clientFetch"

----------------------------------------------------------------------------
(* Properties of getMediaUrl, under MediaSpec *)

MediaCalled == utilResult # None

MediaReturned == MediaCalled /\ utilResult[1].kind = "returned"

MediaThrew == MediaCalled /\ utilResult[1].kind = "threw"

\* the format and the slug of the call, with their documented defaults
ResolvedFormat == IF utilCall.format = None THEN "default" ELSE utilCall.format[1]

ResolvedSlug == IF utilCall.slug = None THEN "media" ELSE utilCall.slug[1]

\* the '-size' segment: the definition if present, else the width if present
SizeSegment ==
    IF utilCall.definition # None THEN <<"-", utilCall.definition[1]>>
    ELSE IF utilCall.width # None THEN <<"-">> \o NumToStr(utilCall.width[1])
    ELSE <<>>

ExtSuffix == IF utilCall.ext # None THEN <<".", utilCall.ext[1]>> ELSE <<>>

ExpectedMediaUrl ==
    utilCall.domain \o <<"/", "v1", "/">> \o NumToStr(utilCall.media.id)
      \o <<"-", ResolvedFormat>> \o SizeSegment
      \o <<"/", utilCall.media.fingerprints[ResolvedFormat], "/", ResolvedSlug>>
      \o ExtSuffix

\* C15: for every input that passes validation, getMediaUrl returns
\* domain/v1/id-format[-size]/fingerprint/slug[.ext], with the defaults
\* 'default' and 'media', the fingerprint of the resolved format and of no
\* other, size the definition if present, else the width if present, and the
\* size segment and the suffix left out exactly when their source is absent.
C15_MediaUrlShape ==
    MediaReturned =>
        LET url == utilResult[1].value
        IN  /\ url = ExpectedMediaUrl
            /\ \A f \in MediaFormats \ {ResolvedFormat} :
                  \A i \in 1..Len(url) : url[i] # utilCall.media.fingerprints[f]
            /\ (utilCall.definition = None /\ utilCall.width = None)
                 <=> Cardinality({i \in 1..Len(url) : url[i] = "-"}) = 1
            /\ (utilCall.ext = None) <=> (\A i \in 1..Len(url) : url[i] # ".")

\* a call with a format, a width, a definition and an extension: the
\* definition is the size
C15_Witness ==
    /\ MediaReturned
    /\ utilCall.format = Some("cover")
    /\ utilCall.width = Some(300)
    /\ utilCall.definition = Some("hd")
    /\ utilCall.ext = Some("jpg")
    /\ utilCall.slug = None
    /\ utilResult[1].value =
         <<"D", "/", "v1", "/", "1", "2", "3", "-", "cover", "-", "hd", "/",
           "fp-cover", "/", "media", ".", "jpg">>

C17_GifRule ==
    (MediaCalled /\ utilCall.media.mimetype = "image/gif" /\ utilCall.ext = Some("gif")) =>
        /\ ( /\ MediaThrew
             /\ utilResult[1].error[1].message =
                  <<"[BTF-MEDIA] GIF images must use 'source' format">> )
             <=> ResolvedFormat # "source"
        /\ ResolvedFormat = "source" =>
             /\ MediaReturned
             /\ LET url == utilResult[1].value
                IN  SubSeq(url, Len(url) - 1, Len(url)) = <<".", "gif">>

\* a GIF asked as gif without a format: the default format is refused
C17_Witness ==
    /\ MediaThrew
    /\ utilCall.media.mimetype = "image/gif"
    /\ utilCall.ext = Some("gif")
    /\ utilCall.format = None
    /\ utilResult[1].error[1] = GifError

\* C18: when ext is neither 'mp4' nor 'mp3' and the call is not a GIF
\* mimetype asked with ext 'gif', getMediaUrl returns a url for every media
\* type, every format, with or without width and definition.
C18_NoOtherConstraint ==
    ( /\ MediaCalled
      /\ utilCall.ext \notin {Some("mp4"), Some("mp3")}
      /\ ~(utilCall.media.mimetype = "image/gif" /\ utilCall.ext = Some("gif")) ) =>
        /\ MediaReturned
        /\ utilResult[1].error = None

\* the preview image of a video, without definition or width
C18_Witness ==
    /\ MediaReturned
    /\ utilCall.media.type = "video"
    /\ utilCall.format = Some("cover")
    /\ utilCall.ext = Some("jpg")
    /\ utilCall.definition = None
    /\ utilCall.width = None

\* the rules a call violates, whatever the other rules say
ViolatedRules ==
    LET playable == utilCall.ext \in {Some("mp4"), Some("mp3")}
    IN  (IF playable /\ utilCall.media.type \notin {"video", "audio"}
         THEN {"type"} ELSE {})
        \cup (IF playable /\ ResolvedFormat \notin {"default", "source"}
              THEN {"format"} ELSE {})
        \cup (IF playable /\ utilCall.definition = None
              THEN {"definition"} ELSE {})
        \cup (IF utilCall.media.mimetype = "image/gif" /\ utilCall.ext = Some("gif")
                  /\ ResolvedFormat # "source"
              THEN {"gif"} ELSE {})

\* the order the rules are said to be evaluated in
RuleOrder == <<"type", "format", "definition", "gif">>

\* the first rule of RuleOrder the call violates
FirstViolatedRule ==
    LET i == CHOOSE k \in 1..Len(RuleOrder) :
                 /\ RuleOrder[k] \in ViolatedRules
                 /\ \A j \in 1..(k - 1) : RuleOrder[j] \notin ViolatedRules
    IN  RuleOrder[i]

\* the rules whose error message is the one of the Error thrown
RulesOfMessage(message) ==
    (IF message[1] = "[BTF-MEDIA] Invalid media type (" THEN {"type"} ELSE {})
    \cup (IF message[1] = "[BTF-MEDIA] Format '" THEN {"format"} ELSE {})
    \cup (IF Len(message) >= 3
             /\ message[3] = " requires 'definition' parameter for extension ."
          THEN {"definition"} ELSE {})
    \cup (IF message = <<"[BTF-MEDIA] GIF images must use 'source' format">>
          THEN {"gif"} ELSE {})

\* C24: a call that violates no rule returns; a call that violates one or
\* several rules throws the Error of the first rule it violates in the order
\* media type, format, definition, GIF rule, and the message of that Error
\* is the message of that rule and of no other.
C24_FirstViolatedRuleWins ==
    MediaCalled =>
        IF ViolatedRules = {}
        THEN MediaReturned
        ELSE /\ MediaThrew
             /\ RulesOfMessage(utilResult[1].error[1].message) = {FirstViolatedRule}

\* a video asked as mp4 in the thumb format without a definition: the format
\* and the definition rules are violated, the format error is thrown
C24_Witness ==
    /\ MediaThrew
    /\ utilCall.media.type = "video"
    /\ utilCall.ext = Some("mp4")
    /\ utilCall.format = Some("thumb")
    /\ utilCall.definition = None
    /\ ViolatedRules = {"format", "definition"}
    /\ RulesOfMessage(utilResult[1].error[1].message) = {"format"}

----------------------------------------------------------------------------
(* Properties of getRelated, under RelatedSpec *)

\* the positions of the pool whose resource has the id and the type of the
\* pointer
MatchingPositions ==
    { i \in 1..Len(utilCall.included) :
        /\ utilCall.included[i].id = utilCall.related.id
        /\ utilCall.included[i].type = utilCall.related.type }

\* C19: getRelated returns undefined for a null or undefined pointer and for
\* a pointer whose (id, type) pair is that of no resource of the pool;
\* otherwise it returns the first resource of the pool, in pool order, whose
\* id and type both equal the pointer's; it never throws.
C19_GetRelated ==
    utilResult # None =>
        /\ utilResult[1].kind = "returned"
        /\ IF utilCall.related.kind \in {"null", "undefined"} \/ MatchingPositions = {}
           THEN utilResult[1].value = None
           ELSE \E i \in MatchingPositions :
                   /\ \A j \in MatchingPositions : i <= j
                   /\ utilResult[1].value = Some(utilCall.included[i])

\* the pool holds a resource of the same id and another type, then the
\* resource the pointer names
C19_Witness ==
    /\ utilResult # None
    /\ utilCall.related = Pointer("related", NumId(1), "image")
    /\ utilCall.included = <<Resource(NumId(1), "post", "a"), Resource(NumId(1), "image", "b")>>
    /\ utilResult[1].value = Some(Resource(NumId(1), "image", "b"))

----------------------------------------------------------------------------
(* Properties of getCategoryChildrenIds, under CategorySpec *)

CategoryReturned == utilResult # None /\ utilResult[1].kind = "returned"

\* the starting category is one of the list
StartIsListed ==
    \E i \in 1..Len(utilCall.categories) : utilCall.categories[i].id = utilCall.category.id

\* some category of the list has a parent pointer to the starting category
StartHasChildren ==
    \E i \in 1..Len(utilCall.categories) :
        utilCall.categories[i].parent = Some(utilCall.category.id)

\* C20: whenever getCategoryChildrenIds(c, all) returns, its result starts
\* with c.id, whether or not c is in all, and is the singleton [c.id] when no
\* category of all has a parentCategory pointer to c.id.
C20_StartsWithOwnId ==
    CategoryReturned =>
        LET ids == utilResult[1].value
        IN  /\ Len(ids) >= 1
            /\ ids[1] = utilCall.category.id
            /\ ~StartHasChildren => ids = <<utilCall.category.id>>

\* a starting category that is not in the list but has a child there
C20_Witness ==
    /\ CategoryReturned
    /\ ~StartIsListed
    /\ utilCall.category.id = 1
    /\ utilCall.categories = <<Category(2, Some(1)), Category(3, None)>>
    /\ utilResult[1].value = <<1, 2>>

CategoryThrew == utilResult # None /\ utilResult[1].kind = "threw"

\* the ids of the categories whose parent pointer holds one of ids
ChildIdsOf(ids) ==
    { utilCall.categories[k].id :
        k \in { j \in 1..Len(utilCall.categories) :
                  \E p \in ids : utilCall.categories[j].parent = Some(p) } }

RECURSIVE DescendantsClosure(_)
\* the least set that holds found and the children of its members
DescendantsClosure(found) ==
    LET more == found \cup ChildIdsOf(found)
    IN  IF more = found THEN found ELSE DescendantsClosure(more)

\* the transitive descendants of id: its children, their children, ...
Descendants(id) == DescendantsClosure(ChildIdsOf({id}))

\* no id of the list, nor the starting id, is its own descendant
Acyclic ==
    \A id \in {utilCall.category.id} \cup
              { utilCall.categories[k].id : k \in 1..Len(utilCall.categories) } :
        id \notin Descendants(id)

RECURSIVE SubtreesFrom(_, _)
\* depth-first pre-order of the subtrees of the children of id listed at
\* positions k and later: the first such child, its whole subtree, then
\* its next siblings; defined on acyclic lists
SubtreesFrom(id, k) ==
    IF k > Len(utilCall.categories) THEN <<>>
    ELSE IF utilCall.categories[k].parent = Some(id)
         THEN <<utilCall.categories[k].id>>
                \o SubtreesFrom(utilCall.categories[k].id, 1)
                \o SubtreesFrom(id, k + 1)
         ELSE SubtreesFrom(id, k + 1)

\* C21: on an acyclic category list the call returns, and its result is
\* c.id followed by the ids of the transitive descendants of c in depth-first
\* pre-order (children in list order, a child's whole subtree before its
\* next sibling); the ids of the result are exactly c.id and the descendants.
C21_PreOrderOfDescendants ==
    (Acyclic /\ utilResult # None) =>
        /\ CategoryReturned
        /\ utilResult[1].value =
             <<utilCall.category.id>> \o SubtreesFrom(utilCall.category.id, 1)
        /\ { utilResult[1].value[i] : i \in 1..Len(utilResult[1].value) } =
             {utilCall.category.id} \cup Descendants(utilCall.category.id)

\* two children of the start, the first of which has a child listed last: the
\* grandchild comes before the second child
C21_Witness ==
    /\ CategoryReturned
    /\ Acyclic
    /\ utilCall.category.id = 1
    /\ utilCall.categories =
         <<Category(2, Some(1)), Category(3, Some(1)), Category(4, Some(2))>>
    /\ utilResult[1].value = <<1, 2, 4, 3>>

\* the starting id is its own descendant
CycleThroughStart == utilCall.category.id \in Descendants(utilCall.category.id)

\* the starting id or one of its descendants is its own descendant
CycleReachable ==
    \E d \in {utilCall.category.id} \cup Descendants(utilCall.category.id) :
        d \in Descendants(d)

\* C23 as stated: without a cycle through the starting id the call returns;
\* with a cycle reachable from the starting category it never returns.
C23_TerminatesUnlessCycleThroughStart ==
    /\ ~CycleThroughStart => <>CategoryReturned
    /\ CycleReachable => []~CategoryReturned

\* C23: without a cycle reachable from the starting category the call
\* returns; with one it never returns, and the recursion grows until the call
\* stack is exhausted.
C23_TerminatesUnlessCycleReachable ==
    /\ ~CycleReachable => <>CategoryReturned
    /\ CycleReachable => ([]~CategoryReturned /\ <>CategoryThrew)

\* a cycle between 2 and 3 that the start 1 reaches through its child 2 and
\* is no part of: the recursion exhausts the stack
C23_Witness ==
    /\ CategoryThrew
    /\ CycleReachable
    /\ ~CycleThroughStart
    /\ utilCall.category.id = 1
    /\ utilCall.categories =
         <<Category(2, Some(1)), Category(3, Some(2)), Category(2, Some(3))>>

====
